---- MODULE Spec2Model ----
(***************************************************************************)
(* Route optimization of dhruvav322/optiroute: the /routes/optimize        *)
(* endpoint (backend/app/api/endpoints.py), its input validation           *)
(* (backend/app/core/validation.py) and RouteOptimizationService           *)
(* (backend/app/services/routing.py).                                      *)
(*                                                                         *)
(* Quantities: latitude/longitude are whole degrees; demand and capacity   *)
(* are carried in thousandths of a unit (40000 is the float 40.0, 10009    *)
(* is 10.009), so that int(x * 100) is a real truncation.                  *)
(* Node numbers are 0-based as in the code; sequences are 1-based, so      *)
(* node k is locations[k + 1].                                             *)
(***************************************************************************)
EXTENDS Integers, Sequences, FiniteSets, TLC

\* ---------------------------------------------------------------- bounds
MaxStops == 4
MaxVehicles == 2

\* ------------------------------------------------------ program constants
MaxLocations == 100
MaxVehicleCount == 50
MaxDemand == 1000000
MaxCapacity == 100000
MaxCostPerKm == 1000
ScaleFactor == 100
OsrmCeiling == 100
SentinelDistance == 999999999
CacheMaxSize == 10000

HTTP_200 == 200
HTTP_400 == 400
HTTP_500 == 500
\* the worker process is killed by a failed native check: no HTTP answer
ProcessAbort == 0

\* ------------------------------------------------------------ input sets
\* LocationInput values a client can send (schemas.py: three floats).
LocationPool ==
    << [latitude |-> 0,  longitude |-> 0, demand |-> 0],
       [latitude |-> 0,  longitude |-> 1, demand |-> 40000],
       [latitude |-> 1,  longitude |-> 0, demand |-> 10009],
       [latitude |-> 1,  longitude |-> 1, demand |-> -1000],
       [latitude |-> 91, longitude |-> 0, demand |-> 0] >>

\* VehicleInput values a client can send.
VehiclePool ==
    << [capacity |-> 50000, cost_per_km |-> 1],
       [capacity |-> 30000, cost_per_km |-> 1],
       [capacity |-> 0,     cost_per_km |-> 1] >>

\* The lists of lo..hi pool values, one list per multiset: renumbering the
\* stops (or vehicles) of a request only renumbers the nodes (vehicle ids) of
\* its answer, and depot_index still ranges over every position.
ListsUpTo(pool, lo, hi) ==
    UNION { { [i \in 1..n |-> pool[f[i]]] :
                f \in { g \in [1..n -> 1..Len(pool)] :
                          \A i \in 1..(n - 1) : g[i] <= g[i + 1] } } :
            n \in lo..hi }

\* RouteOptimizationRequest; vehicles is read only when problem_type = "vrp".
Payloads(maxStops, maxVehicles) ==
    { [locations |-> ls, depot_index |-> d, problem_type |-> "tsp",
       vehicles |-> << >>, return_to_depot |-> r] :
         ls \in ListsUpTo(LocationPool, 1, maxStops),
         d \in (-1)..maxStops, r \in BOOLEAN }
    \cup
    { [locations |-> ls, depot_index |-> d, problem_type |-> "vrp",
       vehicles |-> vs, return_to_depot |-> r] :
         ls \in ListsUpTo(LocationPool, 1, maxStops),
         d \in (-1)..maxStops,
         vs \in ListsUpTo(VehiclePool, 0, maxVehicles), r \in BOOLEAN }

VARIABLES
    pc,            \* position of the request in optimize_routes
    payload,       \* the RouteOptimizationRequest
    locations,     \* List[Location] built by optimize_routes
    vehicles,      \* List[Vehicle] built by optimize_routes
    matrixSource,  \* which provider produced distance_matrix
    solverStatus,  \* routing.status() after SolveWithParameters
    solution,      \* the Assignment: per vehicle, the nodes between Start and End
    response,      \* the HTTP answer
    prev,          \* the failure answered to the previous request, if any; the
                   \* previous solve where the same request is made twice
    roadResponse,  \* what the road-distance service did with this call's request
    osrmRequests,  \* requests sent to the road-distance service during this call
    log,           \* the events logged during this call of calculate_distance_matrix
    distance_matrix, \* the matrix calculate_distance_matrix returned
    raised,        \* the exception calculate_distance_matrix let out, "" if none
    cache,         \* the lru_cache of _haversine_distance, least recently used first
    threads,       \* the builds in flight on worker threads, one record each
    redis_client,  \* Cache.redis_client: whether a Redis connection was made
    redis_store,   \* the keys held by Redis
    memory_cache,  \* Cache.memory_cache
    model_pkl,     \* the model.pkl file of each client
    clock,         \* time.time(), in seconds
    forecast_out,  \* what the last ForecastService call returned
    api_keys,      \* the documents of the api_keys collection
    key_out,       \* what the last APIKeyManager call returned
    arc_costs,     \* per vehicle, what GetArcCostForVehicle returns along its route
    summed         \* the distances the extraction loops have added up

\* what one call of calculate_distance_matrix leaves behind
provider == << roadResponse, osrmRequests, log, distance_matrix, raised, cache >>

\* the forecast service with its cache, and the API key store
forecasting == << redis_client, redis_store, memory_cache, model_pkl, clock,
                  forecast_out >>
keystore == << api_keys, key_out >>

\* the extraction loops on routes of any length
summing == << arc_costs, summed >>

\* what a route optimisation handled by one thread leaves alone
outside == << threads, forecasting, keystore, summing >>

vars == << pc, payload, locations, vehicles, matrixSource, solverStatus,
           solution, response, prev, roadResponse, osrmRequests, log,
           distance_matrix, raised, cache, threads, redis_client, redis_store,
           memory_cache, model_pkl, clock, forecast_out, api_keys, key_out,
           arc_costs, summed >>

\* no forecast made, no model trained
ForecastingIdle ==
    /\ redis_client = FALSE
    /\ redis_store = << >>
    /\ memory_cache = << >>
    /\ model_pkl = << >>
    /\ clock = 0
    /\ forecast_out = << >>

\* no key issued
KeystoreIdle ==
    /\ api_keys = << >>
    /\ key_out = << >>

\* no route walked
SummingIdle ==
    /\ arc_costs = << >>
    /\ summed = << >>

\* no build in flight on another thread, and the above
OutsideIdle ==
    /\ threads = << >>
    /\ ForecastingIdle
    /\ KeystoreIdle
    /\ SummingIdle

NoResponse == [status |-> -1, detail |-> "", tsp_result |-> << >>, vrp_result |-> << >>]
NoFailure == [cause |-> "none", status |-> -1, detail |-> ""]

\* ----------------------------------------------------------- validation.py
validate_coordinates(latitude, longitude) ==
    IF ~(-90 <= latitude /\ latitude <= 90)
        THEN "Latitude must be between -90 and 90"
    ELSE IF ~(-180 <= longitude /\ longitude <= 180)
        THEN "Longitude must be between -180 and 180"
    ELSE ""

\* demand in thousandths
validate_demand(demand) ==
    IF demand < 0 THEN "Demand must be non-negative"
    ELSE IF demand > MaxDemand * 1000 THEN "Demand exceeds maximum allowed value"
    ELSE ""

\* capacity in thousandths
validate_capacity(capacity) ==
    IF capacity <= 0 THEN "Capacity must be positive"
    ELSE IF capacity > MaxCapacity * 1000 THEN "Capacity exceeds maximum allowed value"
    ELSE ""

validate_locations_count(locs) ==
    IF Len(locs) < 2 THEN "At least 2 locations required for routing"
    ELSE IF Len(locs) > MaxLocations THEN "Maximum 100 locations allowed"
    ELSE ""

validate_vehicles_count(vs) ==
    IF Len(vs) = 0 THEN "At least 1 vehicle required"
    ELSE IF Len(vs) > MaxVehicleCount THEN "Maximum 50 vehicles allowed"
    ELSE ""

\* ------------------------------------------------- endpoints.py, conversion
\* one iteration of the location loop: the error it raises, "" if none
LocationError(loc) ==
    IF validate_coordinates(loc.latitude, loc.longitude) # ""
        THEN validate_coordinates(loc.latitude, loc.longitude)
    ELSE IF loc.demand > 0 THEN validate_demand(loc.demand)
    ELSE ""

\* the demand stored in the Location object
ConvertedDemand(loc) == IF loc.demand > 0 THEN loc.demand ELSE 0

ConvertLocations(locs) ==
    [i \in 1..Len(locs) |->
        [latitude |-> locs[i].latitude, longitude |-> locs[i].longitude,
         demand |-> ConvertedDemand(locs[i])]]

\* one iteration of the vehicle loop
VehicleError(v) ==
    IF validate_capacity(v.capacity) # "" THEN validate_capacity(v.capacity)
    ELSE IF v.cost_per_km < 0 \/ v.cost_per_km > MaxCostPerKm
        THEN "Cost per km must be between 0 and 1000"
    ELSE ""

\* the first error a loop raises, given the error of each iteration; "" if
\* the loop completes
FirstError(errs) ==
    IF \E i \in 1..Len(errs) : errs[i] # ""
        THEN errs[CHOOSE i \in 1..Len(errs) :
                    /\ errs[i] # ""
                    /\ \A j \in 1..(i - 1) : errs[j] = ""]
    ELSE ""

LocationErrors(locs) == [i \in 1..Len(locs) |-> LocationError(locs[i])]
VehicleErrors(vs) == [i \in 1..Len(vs) |-> VehicleError(vs[i])]

\* the HTTP 400 optimize_routes raises before it calls the service, "" if none
RequestError(p) ==
    IF validate_locations_count(p.locations) # ""
        THEN validate_locations_count(p.locations)
    ELSE IF FirstError(LocationErrors(p.locations)) # ""
        THEN FirstError(LocationErrors(p.locations))
    ELSE IF p.problem_type = "tsp" THEN ""
    ELSE IF Len(p.vehicles) = 0 THEN "Vehicles required for VRP problem"
    ELSE IF validate_vehicles_count(p.vehicles) # ""
        THEN validate_vehicles_count(p.vehicles)
    ELSE FirstError(VehicleErrors(p.vehicles))

Failure(code, text) ==
    [status |-> code, detail |-> text, tsp_result |-> << >>, vrp_result |-> << >>]

\* ------------------------------------------------------- routing.py, model
\* int(x * 100) for x in thousandths; Python's int() truncates toward zero.
\* The products of the pool's values are not within a float rounding error of
\* an integer, so the exact quotient is what the float computation yields.
ScaledInt(x) ==
    IF x >= 0 THEN (x * ScaleFactor) \div 1000
    ELSE -(((-x) * ScaleFactor) \div 1000)

\* demands = [int(loc.demand * 100) for loc in locations], indexed by node
Demands(locs) == [node \in 0..(Len(locs) - 1) |-> ScaledInt(locs[node + 1].demand)]

\* variant: capacities scaled with another factor than the demands
Capacities_OtherFactor(vs) ==
    [v \in 0..(Len(vs) - 1) |-> (vs[v + 1].capacity * 1000) \div 1000]

\* [int(v.capacity * 100) for v in vehicles], indexed by vehicle_id
Capacities(vs) == [v \in 0..(Len(vs) - 1) |-> ScaledInt(vs[v + 1].capacity)]

\* RoutingIndexManager(len(locations), num_vehicles, depot_index) accepts
\* only a depot that is a node
DepotIsNode(n, depot) == 0 <= depot /\ depot < n

NonDepot(n, depot) == (0..(n - 1)) \ {depot}

RECURSIVE SumOver(_, _)
SumOver(f, s) == IF s = << >> THEN 0 ELSE f[Head(s)] + SumOver(f, Tail(s))

RECURSIVE Perms(_)
\* every visiting order of the node set S
Perms(S) ==
    IF S = {} THEN { << >> }
    ELSE UNION { { << x >> \o p : p \in Perms(S \ {x}) } : x \in S }

RECURSIVE Splits(_, _)
\* every way to cut the order s into k consecutive routes
Splits(s, k) ==
    IF k = 1 THEN { << s >> }
    ELSE UNION { { << SubSeq(s, 1, i) >> \o rest :
                     rest \in Splits(SubSeq(s, i + 1, Len(s)), k - 1) } :
                 i \in 0..Len(s) }

\* every node is mandatory (no disjunction is added): an assignment gives each
\* non-depot node to exactly one vehicle, at one position
Assignments(n, k, depot) ==
    UNION { Splits(p, k) : p \in Perms(NonDepot(n, depot)) }

\* variant: each stop is compared with the capacity on its own, not the cumul
CapacityOk_PerStop(route, v, demands, capacities, depot) ==
    \A i \in DOMAIN route : demands[route[i]] <= capacities[v]

\* the "Capacity" dimension: cumul starts at zero at Start(v), grows by the
\* demand of the node left (the depot's included) with no slack, and is at
\* most the vehicle's capacity at every index of the path, End(v) included
CapacityOk(route, v, demands, capacities, depot) ==
    demands[depot] + SumOver(demands, route) <= capacities[v]

\* the assignments SolveWithParameters may return from solve_tsp
TspSolutions(locs, depot) == Assignments(Len(locs), 1, depot)

\* the assignments SolveWithParameters may return from solve_vrp
VrpSolutions(locs, vs, depot) ==
    { sol \in Assignments(Len(locs), Len(vs), depot) :
        \A v \in 0..(Len(vs) - 1) :
            CapacityOk(sol[v + 1], v, Demands(locs), Capacities(vs), depot) }

\* --------------------------------------------------- routing.py, distances
\* a length of m whole metres and mm thousandths of a metre
Length(m, mm) == [m |-> m, mm |-> mm]

\* 6371.0 * c between two points of the equator d whole degrees apart, where
\* c is d in radians: 111194.92664455873 m per degree
EquatorLength(d) ==
    LET micro == d * 926644 + (d * 558) \div 1000
    IN Length(d * 111194 + micro \div 1000000, (micro \div 1000) % 1000)

\* _haversine_distance on whole-degree points, the float result cut after the
\* thousandth of a metre: any two points of the equator, and the points of
\* latitude 0 and 1 that are one degree of longitude apart
\* (111.19492664455873, 111.17799068882648 and 157.24938127194397 km)
haversine_distance(lat1, lon1, lat2, lon2) ==
    IF lat1 = lat2 /\ lon1 = lon2 THEN Length(0, 0)
    ELSE IF lat1 = 0 /\ lat2 = 0
        THEN EquatorLength(IF lon1 > lon2 THEN lon1 - lon2 ELSE lon2 - lon1)
    ELSE IF lat1 = lat2 THEN Length(111177, 990)
    ELSE IF lon1 = lon2 THEN Length(111194, 926)
    ELSE Length(157249, 381)

\* int(dist_km * 1000)
WholeMetres(d) == d.m

\* the arguments of one _haversine_distance call: the key lru_cache stores
CallKey(a, b) == << a.latitude, a.longitude, b.latitude, b.longitude >>

\* variant: the entry holds the distance from the first point to itself
CacheEntry_FirstPoint(k) ==
    [key |-> k, value |-> haversine_distance(k[1], k[2], k[1], k[2])]

CacheEntry(k) == [key |-> k, value |-> haversine_distance(k[1], k[2], k[3], k[4])]

\* variant: the oldest maxsize entries
KeepNewest_Oldest(c, maxsize) ==
    IF Len(c) <= maxsize THEN c ELSE SubSeq(c, 1, maxsize)

\* the newest maxsize entries
KeepNewest(c, maxsize) ==
    IF Len(c) <= maxsize THEN c ELSE SubSeq(c, Len(c) - maxsize + 1, Len(c))

\* one call of the lru_cache wrapper, c being least recently used first: a hit
\* makes the entry the most recent one, a miss stores it and, on a full
\* cache, drops the least recent one
CachedCall(c, k) ==
    IF \E e \in DOMAIN c : c[e].key = k
        THEN SelectSeq(c, LAMBDA e : e.key # k)
                \o SelectSeq(c, LAMBDA e : e.key = k)
    ELSE KeepNewest(Append(c, CacheEntry(k)), CacheMaxSize)

\* variant: a hit returns the value of the most recent entry
CachedResult_Newest(c, k) ==
    IF \E e \in DOMAIN c : c[e].key = k
        THEN c[Len(c)].value
    ELSE haversine_distance(k[1], k[2], k[3], k[4])

\* what that call returns: on a hit the stored value, on a miss the result of
\* the function
CachedResult(c, k) ==
    IF \E e \in DOMAIN c : c[e].key = k
        THEN c[CHOOSE e \in DOMAIN c : c[e].key = k].value
    ELSE haversine_distance(k[1], k[2], k[3], k[4])

\* the double loop before its first step: the cache, and the matrix entries
\* written so far, row after row
LoopStart(c) == [cache |-> c, entries |-> << >>]

\* the step of the double loop with i * n + j = p (from 0): 0 on the
\* diagonal, else int(dist_km * 1000) of what the cached call returns
LoopStep(run, locs, p) ==
    LET i == (p \div Len(locs)) + 1
        j == (p % Len(locs)) + 1
    IN IF i = j
         THEN [cache |-> run.cache, entries |-> Append(run.entries, 0)]
       ELSE [cache |-> CachedCall(run.cache, CallKey(locs[i], locs[j])),
             entries |-> Append(run.entries,
                           WholeMetres(CachedResult(run.cache,
                                                    CallKey(locs[i], locs[j]))))]

RECURSIVE LoopSteps(_, _, _, _)
\* the steps lo .. hi of the double loop, in order (split in halves, and the
\* run looked at first, which keeps the evaluation shallow)
LoopSteps(run, locs, lo, hi) ==
    IF lo > hi \/ Len(run.cache) > CacheMaxSize THEN run
    ELSE IF lo = hi THEN LoopStep(run, locs, lo)
    ELSE LoopSteps(LoopSteps(run, locs, lo, (lo + hi) \div 2),
                   locs, ((lo + hi) \div 2) + 1, hi)

\* the whole double loop of _calculate_haversine_matrix(locs) on cache c
HaversineRun(c, locs) ==
    LoopSteps(LoopStart(c), locs, 0, Len(locs) * Len(locs) - 1)

\* _calculate_haversine_matrix(locs) when the cache is c: the matrix it
\* returns and the cache it leaves
calculate_haversine_matrix(c, locs) ==
    LET run == HaversineRun(c, locs)
    IN [matrix |-> [i \in 1..Len(locs) |->
                      [j \in 1..Len(locs) |->
                          run.entries[(i - 1) * Len(locs) + j]]],
        cache |-> run.cache]

\* what the road-distance service can do with a request
RoadFailures == {"timeout", "network", "http_error", "bad_json", "no_distances"}
RoadAnswers == {"ok", "ok_null", "short", "ragged", "empty"}

\* what can happen to the request of one call: nothing if none is sent
RoadBehaviours(locs) ==
    IF Len(locs) > OsrmCeiling THEN {"none"} ELSE RoadFailures \cup RoadAnswers

\* null in the JSON answer
Null == -1

\* a driving distance in tenths of a metre: 1.3 times the great circle, and
\* 250 m more towards the south
RoadDistance(a, b) ==
    LET d == haversine_distance(a.latitude, a.longitude, b.latitude, b.longitude)
    IN d.m * 13 + (d.mm * 13) \div 1000
         + (IF a.latitude > b.latitude THEN 2500 ELSE 0)

\* data["distances"] of a 200 answer of each kind
OsrmDistances(kind, locs) ==
    LET n == Len(locs)
        full == [i \in 1..n |-> [j \in 1..n |->
                    IF i = j THEN 0
                    ELSE IF kind = "ok_null" /\ j = n THEN Null
                    ELSE RoadDistance(locs[i], locs[j])]]
    IN  IF kind = "short" THEN SubSeq(full, 1, n - 1)
        ELSE IF kind = "ragged"
            THEN [i \in 1..n |-> IF i = n THEN SubSeq(full[i], 1, n - 1)
                                 ELSE full[i]]
        ELSE IF kind = "empty" THEN << >>
        ELSE full

\* int(d) if d is not None else 999999999, row by row
ConvertDistances(distances) ==
    [i \in 1..Len(distances) |->
        [j \in 1..Len(distances[i]) |->
            IF distances[i][j] = Null THEN SentinelDistance
            ELSE distances[i][j] \div 10]]

LogEvent(lvl, text) == [level |-> lvl, message |-> text]

\* variant: the ceiling itself already skips the road service
SkipsRoadService_AtCeiling(locs) == Len(locs) >= OsrmCeiling

\* "if len(locations) > 100"
SkipsRoadService(locs) == Len(locs) > OsrmCeiling

\* the exception class requests.get / raise_for_status / response.json / the
\* parsing raise for this kind of answer, "" if none
RaisedBy(kind) ==
    IF kind \in {"timeout", "network", "http_error"} THEN "RequestException"
    ELSE IF kind \in {"bad_json", "no_distances"} THEN "ValueError"
    ELSE ""

\* _get_road_distance_matrix on cache c: the matrix it returns or the
\* exception it re-raises, what it logs, whether it asked the service and the
\* estimator, and the cache it leaves
get_road_distance_matrix(locs, kind, c) ==
    IF SkipsRoadService(locs)
        THEN LET h == calculate_haversine_matrix(c, locs) IN
             [raised |-> "", matrix |-> h.matrix, cache |-> h.cache,
              log |-> << LogEvent("warning", "Too many locations, using Haversine fallback"),
                         LogEvent("info", "Calculated Haversine distance matrix") >>,
              requests |-> 0, source |-> "haversine"]
    ELSE IF RaisedBy(kind) = "RequestException"
        THEN [raised |-> "RequestException", matrix |-> << >>, cache |-> c,
              log |-> << LogEvent("warning", "OSRM request failed") >>,
              requests |-> 1, source |-> "none"]
    ELSE IF RaisedBy(kind) = "ValueError"
        THEN [raised |-> "ValueError", matrix |-> << >>, cache |-> c,
              log |-> << LogEvent("warning", "OSRM response parsing failed") >>,
              requests |-> 1, source |-> "none"]
    ELSE [raised |-> "", matrix |-> ConvertDistances(OsrmDistances(kind, locs)),
          cache |-> c,
          log |-> << LogEvent("info", "Successfully fetched road distance matrix from OSRM") >>,
          requests |-> 1, source |-> "osrm"]

\* variant: the fallback handles request errors only
FallbackCatches_RequestOnly(exc) == exc = "RequestException"

\* "except Exception"
FallbackCatches(exc) == TRUE

\* calculate_distance_matrix with the service behaving as kind
calculate_distance_matrix(locs, kind, c) ==
    LET r == get_road_distance_matrix(locs, kind, c) IN
    IF r.raised = "" \/ ~FallbackCatches(r.raised) THEN r
    ELSE LET h == calculate_haversine_matrix(c, locs) IN
         [raised |-> "", matrix |-> h.matrix, cache |-> h.cache,
          log |-> r.log \o
                  << LogEvent("warning", "OSRM unavailable, falling back to Haversine"),
                     LogEvent("info", "Calculated Haversine distance matrix") >>,
          requests |-> r.requests, source |-> "haversine"]

\* ------------------------------------------------- routing.py, extraction
\* the nodes appended by the while loop from Start(v) until IsEnd
Walk(sol, v, depot) == << depot >> \o sol[v + 1]

\* variant: the final depot is appended whatever return_to_depot says
RouteIndices_AlwaysClosed(sol, v, depot, return_to_depot) ==
    Walk(sol, v, depot) \o << depot >>

\* route_indices after the "Add depot at end" step; final_node is the depot
RouteIndices(sol, v, depot, return_to_depot) ==
    IF return_to_depot THEN Walk(sol, v, depot) \o << depot >>
    ELSE Walk(sol, v, depot)

RECURSIVE PathCost(_, _)
\* the matrix entries along the consecutive pairs of a sequence of nodes
PathCost(matrix, nodes) ==
    IF Len(nodes) < 2 THEN 0
    ELSE matrix[nodes[1] + 1][nodes[2] + 1] + PathCost(matrix, Tail(nodes))

\* total_distance / vehicle_distance after the while loop: one
\* GetArcCostForVehicle per step, the step into the End index included
RouteDistance(sol, v, depot, matrix) ==
    PathCost(matrix, Walk(sol, v, depot) \o << depot >>)

TspResult(sol, depot, return_to_depot, matrix) ==
    [ route_indices |-> RouteIndices(sol, 0, depot, return_to_depot),
      total_distance_meters |-> RouteDistance(sol, 0, depot, matrix),
      number_of_stops |-> Len(RouteIndices(sol, 0, depot, return_to_depot))
                            - (IF return_to_depot THEN 1 ELSE 0),
      return_to_depot |-> return_to_depot ]

\* variant: every vehicle is reported
RouteIncluded_Any(route) == Len(route) >= 1

\* "Only include routes with actual stops"
RouteIncluded(route) == Len(route) > 2

\* variant: two depot entries are subtracted whatever return_to_depot says
VehicleRoute_ClosedCount(sol, v, depot, return_to_depot, matrix) ==
    [ vehicle_id |-> v,
      route_indices |-> RouteIndices(sol, v, depot, return_to_depot),
      distance_meters |-> RouteDistance(sol, v, depot, matrix),
      number_of_stops |-> Len(RouteIndices(sol, v, depot, return_to_depot)) - 2 ]

VehicleRoute(sol, v, depot, return_to_depot, matrix) ==
    [ vehicle_id |-> v,
      route_indices |-> RouteIndices(sol, v, depot, return_to_depot),
      distance_meters |-> RouteDistance(sol, v, depot, matrix),
      number_of_stops |-> Len(RouteIndices(sol, v, depot, return_to_depot))
                            - (IF return_to_depot THEN 2 ELSE 1) ]

RECURSIVE VehicleRoutes(_, _, _, _, _)
\* vehicle_routes after the loop has handled vehicle_id 0 .. k-1
VehicleRoutes(sol, k, depot, return_to_depot, matrix) ==
    IF k = 0 THEN << >>
    ELSE IF RouteIncluded(RouteIndices(sol, k - 1, depot, return_to_depot))
        THEN Append(VehicleRoutes(sol, k - 1, depot, return_to_depot, matrix),
                    VehicleRoute(sol, k - 1, depot, return_to_depot, matrix))
    ELSE VehicleRoutes(sol, k - 1, depot, return_to_depot, matrix)

RECURSIVE SumDistances(_)
\* total_distance: the vehicle_distance of the routes that were appended
SumDistances(routes) ==
    IF routes = << >> THEN 0
    ELSE Head(routes).distance_meters + SumDistances(Tail(routes))

VrpResult(sol, depot, return_to_depot, matrix) ==
    [ vehicle_routes |-> VehicleRoutes(sol, Len(sol), depot, return_to_depot, matrix),
      total_distance_meters |->
          SumDistances(VehicleRoutes(sol, Len(sol), depot, return_to_depot, matrix)),
      vehicles_used |-> Len(VehicleRoutes(sol, Len(sol), depot, return_to_depot, matrix)),
      total_vehicles |-> Len(sol),
      return_to_depot |-> return_to_depot ]

\* ---------------------------------------------------------------- actions
Fresh(p) ==
    /\ pc = "received"
    /\ payload = p
    /\ locations = << >>
    /\ vehicles = << >>
    /\ matrixSource = "none"
    /\ solverStatus = "ROUTING_NOT_SOLVED"
    /\ solution = << >>
    /\ response = NoResponse
    /\ roadResponse = "none"
    /\ osrmRequests = 0
    /\ log = << >>
    /\ distance_matrix = << >>
    /\ raised = ""
    /\ OutsideIdle

Init ==
    /\ \E p \in Payloads(MaxStops, MaxVehicles) : Fresh(p)
    /\ prev = NoFailure
    /\ cache = << >>

\* optimize_routes up to the call of solve_tsp / solve_vrp
ValidateRequest ==
    /\ pc = "received"
    /\ IF RequestError(payload) # ""
         THEN /\ response' = Failure(HTTP_400, RequestError(payload))
              /\ pc' = "done"
              /\ UNCHANGED << locations, vehicles >>
         ELSE /\ locations' = ConvertLocations(payload.locations)
              /\ vehicles' = payload.vehicles
              /\ pc' = "validated"
              /\ UNCHANGED response
    /\ UNCHANGED << payload, matrixSource, solverStatus, solution, prev, provider >>
    /\ UNCHANGED outside

\* the checks solve_tsp / solve_vrp make themselves, "" if they pass
ServiceError ==
    IF Len(locations) < 2 THEN "Need at least 2 locations for routing"
    ELSE IF payload.problem_type = "vrp" /\ Len(vehicles) = 0
        THEN "Need at least 1 vehicle"
    ELSE ""

\* solve_tsp / solve_vrp entry and calculate_distance_matrix, the road
\* service behaving as kind when it is asked; an exception that leaves
\* calculate_distance_matrix reaches the global handler
BuildMatrix(kind) ==
    /\ pc = "validated"
    /\ IF ServiceError # ""
         THEN /\ response' = Failure(HTTP_400, ServiceError)
              /\ pc' = "done"
              /\ UNCHANGED << matrixSource, provider >>
         ELSE /\ LET r == calculate_distance_matrix(locations, kind, cache) IN
                    /\ roadResponse' = IF r.requests = 0 THEN "none" ELSE kind
                    /\ osrmRequests' = r.requests
                    /\ log' = r.log
                    /\ distance_matrix' = r.matrix
                    /\ matrixSource' = r.source
                    /\ cache' = r.cache
                    /\ raised' = r.raised
                    /\ IF r.raised = ""
                         THEN /\ pc' = "matrix"
                              /\ UNCHANGED response
                         ELSE /\ pc' = "done"
                              /\ response' = Failure(HTTP_500,
                                   "An internal error occurred. Please try again later.")
    /\ UNCHANGED << payload, locations, vehicles, solverStatus, solution, prev >>
    /\ UNCHANGED outside

\* the road service gives a well-formed answer or none in time
CalculateDistanceMatrix ==
    \E kind \in {"ok", "timeout"} : BuildMatrix(kind)

\* the assignments the search can end with for the current request
Solutions ==
    IF payload.problem_type = "tsp"
        THEN TspSolutions(locations, payload.depot_index)
    ELSE VrpSolutions(locations, vehicles, payload.depot_index)

\* RoutingIndexManager refuses a depot that is not a node: the native check
\* aborts the worker, or the binding raises and the global handler answers
CreateModelRejected ==
    /\ pc = "matrix"
    /\ ~DepotIsNode(Len(locations), payload.depot_index)
    /\ \E code \in {ProcessAbort, HTTP_500} :
           response' = Failure(code,
                IF code = HTTP_500
                    THEN "An internal error occurred. Please try again later."
                ELSE "")
    /\ pc' = "done"
    /\ UNCHANGED << payload, locations, vehicles, matrixSource, solverStatus,
                    solution, prev, provider >>
    /\ UNCHANGED outside

\* SolveWithParameters returns an assignment
SolveFound ==
    /\ pc = "matrix"
    /\ DepotIsNode(Len(locations), payload.depot_index)
    /\ \E sol \in Solutions :
           /\ solution' = sol
           /\ solverStatus' = "ROUTING_SUCCESS"
    /\ pc' = "solved"
    /\ UNCHANGED << payload, locations, vehicles, matrixSource, response, prev,
                    provider >>
    /\ UNCHANGED outside

\* SolveWithParameters returns None: the search space holds no assignment
SolveInfeasible ==
    /\ pc = "matrix"
    /\ DepotIsNode(Len(locations), payload.depot_index)
    /\ Solutions = {}
    /\ solution' = << >>
    /\ solverStatus' = "ROUTING_FAIL"
    /\ pc' = "solved"
    /\ UNCHANGED << payload, locations, vehicles, matrixSource, response, prev,
                    provider >>
    /\ UNCHANGED outside

\* SolveWithParameters returns None: time_limit elapsed before a first solution
SolveTimeLimit ==
    /\ pc = "matrix"
    /\ DepotIsNode(Len(locations), payload.depot_index)
    /\ solution' = << >>
    /\ solverStatus' = "ROUTING_FAIL_TIMEOUT"
    /\ pc' = "solved"
    /\ UNCHANGED << payload, locations, vehicles, matrixSource, response, prev,
                    provider >>
    /\ UNCHANGED outside

\* "if not solution: raise", else route extraction and the response
Extract ==
    /\ pc = "solved"
    /\ response' =
         IF solverStatus # "ROUTING_SUCCESS"
             THEN Failure(HTTP_500,
                    IF payload.problem_type = "tsp"
                        THEN "Failed to find solution for TSP"
                    ELSE "Failed to find solution for VRP")
         ELSE IF payload.problem_type = "tsp"
             THEN [status |-> HTTP_200, detail |-> "",
                   tsp_result |-> << TspResult(solution, payload.depot_index,
                                               payload.return_to_depot,
                                               distance_matrix) >>,
                   vrp_result |-> << >>]
         ELSE [status |-> HTTP_200, detail |-> "",
               tsp_result |-> << >>,
               vrp_result |-> << VrpResult(solution, payload.depot_index,
                                           payload.return_to_depot,
                                           distance_matrix) >>]
    /\ pc' = "done"
    /\ UNCHANGED << payload, locations, vehicles, matrixSource, solverStatus,
                    solution, prev, provider >>
    /\ UNCHANGED outside

Next ==
    \/ ValidateRequest
    \/ CalculateDistanceMatrix
    \/ CreateModelRejected
    \/ SolveFound
    \/ SolveInfeasible
    \/ Extract

\* one request, on an instance whose search ends within its time limit
Spec == Init /\ [][Next]_vars

\* two bounds of the request sequence below
SeqStops == 2
SeqVehicles == 1

\* why the current request failed
FailureCause ==
    IF matrixSource = "none" THEN "validation"
    ELSE IF solverStatus = "ROUTING_FAIL" THEN "infeasible"
    ELSE IF solverStatus = "ROUTING_FAIL_TIMEOUT" THEN "solver"
    ELSE "internal"

\* the payload slot of a worker that holds no request
NoPayload ==
    [locations |-> << >>, depot_index |-> 0, problem_type |-> "tsp",
     vehicles |-> << >>, return_to_depot |-> TRUE]

InitSeq ==
    /\ pc = "idle"
    /\ payload = NoPayload
    /\ locations = << >>
    /\ vehicles = << >>
    /\ matrixSource = "none"
    /\ solverStatus = "ROUTING_NOT_SOLVED"
    /\ solution = << >>
    /\ response = NoResponse
    /\ prev = NoFailure
    /\ roadResponse = "none"
    /\ osrmRequests = 0
    /\ log = << >>
    /\ distance_matrix = << >>
    /\ raised = ""
    /\ cache = << >>
    /\ OutsideIdle

\* a request arrives
Receive ==
    /\ pc = "idle"
    /\ \E p \in Payloads(SeqStops, SeqVehicles) : payload' = p
    /\ pc' = "received"
    /\ UNCHANGED << locations, vehicles, matrixSource, solverStatus, solution,
                    response, prev, provider >>
    /\ UNCHANGED outside

\* the answer is sent; the service object and every structure of the request
\* are dropped
Respond ==
    /\ pc = "done"
    /\ prev' = IF response.status = HTTP_200 THEN prev
               ELSE [cause |-> FailureCause, status |-> response.status,
                     detail |-> response.detail]
    /\ pc' = "idle"
    /\ payload' = NoPayload
    /\ locations' = << >>
    /\ vehicles' = << >>
    /\ matrixSource' = "none"
    /\ solverStatus' = "ROUTING_NOT_SOLVED"
    /\ solution' = << >>
    /\ response' = NoResponse
    /\ roadResponse' = "none"
    /\ osrmRequests' = 0
    /\ log' = << >>
    /\ distance_matrix' = << >>
    /\ raised' = ""
    /\ UNCHANGED cache
    /\ UNCHANGED outside

\* the road service is up for the whole sequence
CalculateDistanceMatrixServed ==
    \E kind \in {"ok"} : BuildMatrix(kind)

NextSeq ==
    \/ ValidateRequest
    \/ CalculateDistanceMatrixServed
    \/ CreateModelRejected
    \/ SolveFound
    \/ SolveInfeasible
    \/ Extract
    \/ SolveTimeLimit
    \/ Receive
    \/ Respond

\* successive requests, on instances of any size: the search may hit its limit
SpecSeq == InitSeq /\ [][NextSeq]_vars

\* a bound of the service-level calls below, and their coordinates
MatStops == 3
MatrixPool ==
    { [latitude |-> 0, longitude |-> 0, demand |-> 0],
      [latitude |-> 0, longitude |-> 1, demand |-> 0] }

\* n stops, the two coordinates alternating
LongList(n) ==
    [i \in 1..n |-> [latitude |-> 0, longitude |-> i % 2, demand |-> 0]]

\* the location lists calculate_distance_matrix is called with: every short
\* list, and the two lists at and just above the ceiling
MatrixInputs(maxStops) ==
    UNION { [1..n -> MatrixPool] : n \in 0..maxStops }
        \cup { LongList(OsrmCeiling), LongList(OsrmCeiling + 1) }

InitMatrix ==
    /\ pc = "idle"
    /\ payload = NoPayload
    /\ locations = << >>
    /\ vehicles = << >>
    /\ matrixSource = "none"
    /\ solverStatus = "ROUTING_NOT_SOLVED"
    /\ solution = << >>
    /\ response = NoResponse
    /\ prev = NoFailure
    /\ roadResponse = "none"
    /\ osrmRequests = 0
    /\ log = << >>
    /\ distance_matrix = << >>
    /\ raised = ""
    /\ cache = << >>
    /\ OutsideIdle

\* one call of RouteOptimizationService.calculate_distance_matrix, the road
\* service behaving in any way it can
CallCalculateDistanceMatrix ==
    /\ pc = "idle"
    /\ \E locs \in MatrixInputs(MatStops) : \E kind \in RoadBehaviours(locs) :
          \E r \in { calculate_distance_matrix(locs, kind, cache) } :
          /\ locations' = locs
          /\ roadResponse' = IF r.requests = 0 THEN "none" ELSE kind
          /\ osrmRequests' = r.requests
          /\ log' = r.log
          /\ distance_matrix' = r.matrix
          /\ matrixSource' = r.source
          /\ raised' = r.raised
          /\ cache' = r.cache
    /\ pc' = "returned"
    /\ UNCHANGED << payload, vehicles, solverStatus, solution, response, prev >>
    /\ UNCHANGED outside

\* the caller drops the matrix; the cache belongs to the process and stays
DropMatrix ==
    /\ pc = "returned"
    /\ pc' = "idle"
    /\ locations' = << >>
    /\ roadResponse' = "none"
    /\ osrmRequests' = 0
    /\ log' = << >>
    /\ distance_matrix' = << >>
    /\ matrixSource' = "none"
    /\ raised' = ""
    /\ UNCHANGED << payload, vehicles, solverStatus, solution, response, prev,
                    cache >>
    /\ UNCHANGED outside

NextMatrix ==
    \/ CallCalculateDistanceMatrix
    \/ DropMatrix

\* successive calls of calculate_distance_matrix in one process
SpecMatrix == InitMatrix /\ [][NextMatrix]_vars

\* two bounds of the repeated request below
TwiceStops == 3
TwiceVehicles == 1

InitTwice ==
    /\ \E p \in Payloads(TwiceStops, TwiceVehicles) : Fresh(p)
    /\ prev = NoFailure
    /\ cache = << >>

\* SolveWithParameters returns an assignment; the search is deterministic, so
\* on the model and matrix of the previous solve it returns the same one
SolveDeterministic ==
    /\ pc = "matrix"
    /\ DepotIsNode(Len(locations), payload.depot_index)
    /\ \E sol \in Solutions :
           /\ (prev # NoFailure /\ prev.matrix = distance_matrix)
                  => sol = prev.solution
           /\ solution' = sol
           /\ solverStatus' = "ROUTING_SUCCESS"
    /\ pc' = "solved"
    /\ UNCHANGED << payload, locations, vehicles, matrixSource, response, prev,
                    provider >>
    /\ UNCHANGED outside

\* the first answer is sent and the same request arrives again; the cache
\* belongs to the process and stays
Repeat ==
    /\ pc = "done"
    /\ prev = NoFailure
    /\ prev' = [response |-> response, solution |-> solution,
                matrix |-> distance_matrix]
    /\ pc' = "received"
    /\ locations' = << >>
    /\ vehicles' = << >>
    /\ matrixSource' = "none"
    /\ solverStatus' = "ROUTING_NOT_SOLVED"
    /\ solution' = << >>
    /\ response' = NoResponse
    /\ roadResponse' = "none"
    /\ osrmRequests' = 0
    /\ log' = << >>
    /\ distance_matrix' = << >>
    /\ raised' = ""
    /\ UNCHANGED << payload, cache >>
    /\ UNCHANGED outside

NextTwice ==
    \/ ValidateRequest
    \/ CalculateDistanceMatrix
    \/ CreateModelRejected
    \/ SolveDeterministic
    \/ SolveInfeasible
    \/ Extract
    \/ Repeat

\* the same request twice in one process, the search ending within its limit
SpecTwice == InitTwice /\ [][NextTwice]_vars

\* ------------------------------------------------------------- vocabulary
Count(s, x) == Cardinality({ i \in DOMAIN s : s[i] = x })

TspAnswered == pc = "done" /\ response.tsp_result # << >>
VrpAnswered == pc = "done" /\ response.vrp_result # << >>
TspOut == response.tsp_result[1]
VrpOut == response.vrp_result[1]

Depot == payload.depot_index
Stops == NonDepot(Len(payload.locations), Depot)

\* the request went through optimize_routes' checks into solve_vrp
VrpSolveCalled ==
    /\ payload.problem_type = "vrp"
    /\ locations # << >>
    /\ pc = "done"

\* int(demand * 100) by node and int(capacity * 100) by vehicle_id
NodeDemand == [k \in 0..(Len(locations) - 1) |-> ScaledInt(locations[k + 1].demand)]
VehicleCapacity ==
    [v \in 0..(Len(vehicles) - 1) |-> ScaledInt(vehicles[v + 1].capacity)]

RECURSIVE SumSet(_, _)
\* the sum of f over the set S
SumSet(f, S) ==
    IF S = {} THEN 0
    ELSE LET x == CHOOSE y \in S : TRUE IN f[x] + SumSet(f, S \ {x})

TotalDemand == SumSet(NodeDemand, DOMAIN NodeDemand)
TotalCapacity == SumSet(VehicleCapacity, DOMAIN VehicleCapacity)

\* the non-depot entries of a route
StopsOf(route_indices) ==
    { route_indices[i] : i \in DOMAIN route_indices } \ {Depot}

\* ------------------------------------------------------------------ claims

\* C1: a single-vehicle result starts at the depot, holds every non-depot stop
\* exactly once, ends at the depot iff the tour is closed, and in an open tour
\* holds the depot at position 0 only.
C1_TspRouteShape ==
    TspAnswered =>
        LET ri == TspOut.route_indices IN
        /\ ri[1] = Depot
        /\ \A k \in Stops : Count(ri, k) = 1
        /\ (ri[Len(ri)] = Depot) <=> payload.return_to_depot
        /\ ~payload.return_to_depot => Count(ri, Depot) = 1

C1_Witness ==
    /\ TspAnswered
    /\ ~payload.return_to_depot
    /\ Depot > 0
    /\ Len(payload.locations) >= 3

\* how often stop k occurs in the route_indices of all returned vehicle routes
Occurrences(k) ==
    SumSet([i \in DOMAIN VrpOut.vehicle_routes |->
               Count(VrpOut.vehicle_routes[i].route_indices, k)],
           DOMAIN VrpOut.vehicle_routes)

\* C2: in a multi-vehicle result, closed or open, every non-depot stop occurs
\* exactly once in the returned vehicle routes taken together.
C2_VrpCoversEveryStop ==
    VrpAnswered => \A k \in Stops : Occurrences(k) = 1

\* C3: in a multi-vehicle result the scaled demands int(demand * 100) of the
\* stops of each route add up to at most int(capacity * 100) of its vehicle.
C3_VrpLoadWithinCapacity ==
    VrpAnswered =>
        \A i \in DOMAIN VrpOut.vehicle_routes :
            LET r == VrpOut.vehicle_routes[i] IN
            SumSet(NodeDemand, StopsOf(r.route_indices))
                <= VehicleCapacity[r.vehicle_id]

\* a returned route whose two stops fill the vehicle exactly
C3_Witness ==
    /\ VrpAnswered
    /\ \E i \in DOMAIN VrpOut.vehicle_routes :
           LET r == VrpOut.vehicle_routes[i] IN
           /\ Cardinality(StopsOf(r.route_indices)) = 2
           /\ SumSet(NodeDemand, StopsOf(r.route_indices))
                 = VehicleCapacity[r.vehicle_id]
           /\ VehicleCapacity[r.vehicle_id] > 0

\* C4: every returned vehicle route starts at the depot, and ends at the depot
\* iff the tour is closed.
C4_VrpRouteEnds ==
    VrpAnswered =>
        \A i \in DOMAIN VrpOut.vehicle_routes :
            LET ri == VrpOut.vehicle_routes[i].route_indices IN
            /\ ri[1] = Depot
            /\ (ri[Len(ri)] = Depot) <=> payload.return_to_depot

\* an open multi-vehicle answer with a route, next to a vehicle left empty
C4_Witness ==
    /\ VrpAnswered
    /\ ~payload.return_to_depot
    /\ VrpOut.vehicle_routes # << >>
    /\ \E v \in DOMAIN solution : solution[v] = << >>

\* the vehicles the assignment gives at least one non-depot stop
VehiclesWithStops == { v \in 0..(Len(solution) - 1) : solution[v + 1] # << >> }

\* C5: vehicles_used is the number of vehicles with at least one stop, and
\* exactly those vehicles have an entry in vehicle_routes.
C5_VehiclesUsed ==
    VrpAnswered =>
        /\ VrpOut.vehicles_used = Cardinality(VehiclesWithStops)
        /\ { VrpOut.vehicle_routes[i].vehicle_id :
               i \in DOMAIN VrpOut.vehicle_routes } = VehiclesWithStops

\* scenario B: 4 stops, depot demand 0, the others 40 each, two vehicles of 50
ScenarioB ==
    /\ payload.problem_type = "vrp"
    /\ Len(payload.locations) = 4
    /\ DepotIsNode(4, Depot)
    /\ \A k \in 0..3 :
           /\ validate_coordinates(payload.locations[k + 1].latitude,
                                   payload.locations[k + 1].longitude) = ""
           /\ payload.locations[k + 1].demand = IF k = Depot THEN 0 ELSE 40000
    /\ Len(payload.vehicles) = 2
    /\ \A v \in 1..2 : payload.vehicles[v].capacity = 50000

\* C6 as stated: scenario B is answered with vehicles_used = 2 and at most one
\* non-depot stop per route.
C6_ScenarioB_Stated ==
    (pc = "done" /\ ScenarioB) =>
        /\ VrpAnswered
        /\ VrpOut.vehicles_used = 2
        /\ \A i \in DOMAIN VrpOut.vehicle_routes :
               Cardinality(StopsOf(VrpOut.vehicle_routes[i].route_indices)) <= 1

\* C6 amended: scenario B (scaled demand 12000, scaled fleet capacity 10000)
\* ends in the solver failure and returns no result.
C6_ScenarioB_Fails ==
    (pc = "done" /\ ScenarioB) =>
        response = Failure(HTTP_500, "Failed to find solution for VRP")

C6_Witness == pc = "done" /\ ScenarioB /\ solverStatus = "ROUTING_FAIL"

\* C7: when the total scaled demand exceeds the total scaled capacity, the
\* multi-vehicle solve fails and returns no result.
C7_OverCapacityFails ==
    (VrpSolveCalled /\ TotalDemand > TotalCapacity) =>
        /\ response.status # HTTP_200
        /\ response.vrp_result = << >>

C7_Witness ==
    /\ VrpSolveCalled
    /\ TotalDemand > TotalCapacity
    /\ solverStatus = "ROUTING_FAIL"
    /\ Len(vehicles) = 2

FitExists ==
    \E a \in [Stops -> 0..(Len(vehicles) - 1)] :
        \A v \in 0..(Len(vehicles) - 1) :
            NodeDemand[Depot] + SumSet(NodeDemand, { k \in Stops : a[k] = v })
                <= VehicleCapacity[v]

C9_InfeasibilityDistinct ==
    (/\ pc = "done"
     /\ response.status # HTTP_200
     /\ prev.cause # "none"
     /\ prev.cause # FailureCause
     /\ "infeasible" \in {prev.cause, FailureCause}) =>
        << prev.status, prev.detail >> # << response.status, response.detail >>

\* C10: a request whose depot_index is not a stop index is answered with an
\* input validation error (400 with a reason), for tsp and for vrp.
C10_DepotRangeValidated ==
    (pc = "done"
        /\ ~DepotIsNode(Len(payload.locations), payload.depot_index)) =>
        /\ response.status = HTTP_400
        /\ response.detail # ""

\* the request has been refused for what it contains: a 400 with its reason,
\* or the refusal of a depot_index that is not a stop index
RejectedForInput ==
    /\ pc = "done"
    /\ \/ response.status = HTTP_400
       \/ /\ response.status # HTTP_200
          /\ ~DepotIsNode(Len(payload.locations), payload.depot_index)

\* C11: a request rejected for an input validation reason is rejected before
\* any distance computation: no road-distance request was sent and no
\* great-circle distance was computed or cached on that request.
C11_RejectedBeforeDistances ==
    RejectedForInput =>
        /\ osrmRequests = 0
        /\ distance_matrix = << >>
        /\ log = << >>
        /\ cache = << >>

HasNegativeDemand ==
    \E i \in DOMAIN payload.locations : payload.locations[i].demand < 0

\* C12: a request with a stop of negative demand, and nothing else wrong with
\* it, is rejected with the reason "Demand must be non-negative"; it is never
\* solved with the demand replaced by another value.
C12_NegativeDemandRejected ==
    (/\ pc = "done"
     /\ HasNegativeDemand
     /\ RequestError(payload) = ""
     /\ DepotIsNode(Len(payload.locations), payload.depot_index)) =>
        /\ response.status = HTTP_400
        /\ response.detail = "Demand must be non-negative"

\* the sum of distance_matrix over the consecutive pairs of route_indices
LegSum(route_indices) ==
    LET leg == [k \in 1..(Len(route_indices) - 1) |->
                  distance_matrix[route_indices[k] + 1][route_indices[k + 1] + 1]]
    IN SumSet(leg, DOMAIN leg)

\* C17: the reported distance of every returned route, tsp or per vehicle,
\* closed or open, is the sum of the matrix entries over the consecutive pairs
\* of its route_indices; an open tour counts no leg back to the depot.
C17_DistanceIsLegSum ==
    /\ TspAnswered =>
         TspOut.total_distance_meters = LegSum(TspOut.route_indices)
    /\ VrpAnswered =>
         \A r \in DOMAIN VrpOut.vehicle_routes :
            VrpOut.vehicle_routes[r].distance_meters =
                LegSum(VrpOut.vehicle_routes[r].route_indices)

\* C18: number_of_stops of every vehicle route, closed or open, is the number
\* of entries of its route_indices that are not the depot.
C18_VrpStopCount ==
    VrpAnswered =>
        \A r \in DOMAIN VrpOut.vehicle_routes :
            VrpOut.vehicle_routes[r].number_of_stops =
                Cardinality({ k \in DOMAIN VrpOut.vehicle_routes[r].route_indices :
                                VrpOut.vehicle_routes[r].route_indices[k] # Depot })

\* an open multi-vehicle answer and a closed one would both do; this is the
\* open one, a route of the depot and two stops
C18_Witness ==
    /\ VrpAnswered
    /\ ~payload.return_to_depot
    /\ \E r \in DOMAIN VrpOut.vehicle_routes :
          /\ Len(VrpOut.vehicle_routes[r].route_indices) = 3
          /\ VrpOut.vehicle_routes[r].number_of_stops = 2

\* C19: number_of_stops of a tsp result, closed or open, is the number of
\* stops minus 1: no depot appearance is counted.
C19_TspStopCount ==
    TspAnswered => TspOut.number_of_stops = Len(payload.locations) - 1

\* a call of calculate_distance_matrix has ended
Returned == pc = "returned"

\* the great-circle estimator's matrix for these stops: 0 on the diagonal,
\* the whole metres of the great-circle distance elsewhere
GreatCircleMatrix(locs) ==
    [i \in 1..Len(locs) |->
        [j \in 1..Len(locs) |->
            IF i = j THEN 0
            ELSE haversine_distance(locs[i].latitude, locs[i].longitude,
                                    locs[j].latitude, locs[j].longitude).m]]

\* C13: whatever way the road-distance call fails (timeout, network error,
\* non-200 status, unparsable body, body without distances),
\* calculate_distance_matrix raises nothing and returns the great-circle
\* matrix of the same stops.
C13_FailureFallsBack ==
    (Returned /\ roadResponse \in RoadFailures) =>
        /\ raised = ""
        /\ distance_matrix = GreatCircleMatrix(locations)

\* a body without distances, for two distinct points
C13_Witness ==
    /\ Returned
    /\ roadResponse = "no_distances"
    /\ raised = ""
    /\ Len(locations) = 2
    /\ distance_matrix = << << 0, 111194 >>, << 111194, 0 >> >>

\* m has n rows of n entries
SquareShape(m, n) ==
    /\ Len(m) = n
    /\ \A i \in 1..Len(m) : Len(m[i]) = n

\* m has n rows of n non-negative integers
SquareMatrix(m, n) ==
    /\ SquareShape(m, n)
    /\ \A i \in 1..Len(m) : \A j \in 1..Len(m[i]) : m[i][j] \in Nat

\* C14: for every 200 answer of the road service the matrix returned for n
\* stops has n rows of n non-negative integers, a null having become
\* 999999999; distances of another shape (rows missing, a row too short, an
\* empty list) give the great-circle matrix instead.
C14_ReturnedMatrixSquare ==
    (Returned /\ roadResponse \in RoadAnswers) =>
        /\ SquareMatrix(distance_matrix, Len(locations))
        /\ IF SquareShape(OsrmDistances(roadResponse, locations), Len(locations))
             THEN \A i \in 1..Len(locations) : \A j \in 1..Len(locations) :
                     OsrmDistances(roadResponse, locations)[i][j] = Null
                         => distance_matrix[i][j] = SentinelDistance
             ELSE distance_matrix = GreatCircleMatrix(locations)

Warnings == { k \in DOMAIN log : log[k].level = "warning" }

\* C15: a call in which the road-distance call fails emits exactly one
\* warning-level event.
C15_OneFallbackWarning ==
    (Returned /\ roadResponse \in RoadFailures) => Cardinality(Warnings) = 1

\* C16: above 100 stops no road-distance request is sent and the great-circle
\* matrix is returned; with 100 stops or fewer exactly one request is sent.
C16_CeilingSkipsRoadService ==
    Returned =>
        IF Len(locations) > 100
            THEN /\ osrmRequests = 0
                 /\ distance_matrix = GreatCircleMatrix(locations)
        ELSE osrmRequests = 1

\* 101 stops
C16_Witness ==
    /\ Returned
    /\ Len(locations) = 101
    /\ osrmRequests = 0
    /\ Len(distance_matrix) = 101
    /\ distance_matrix[1][2] = 111194

\* the two points of a cache key, whatever their order
PairOf(k) == { << k[1], k[2] >>, << k[3], k[4] >> }

\* C20: the cache is keyed by the unordered pair of points: a pair never has
\* two entries, one per direction.
C20_CacheKeyUnordered ==
    \A i \in DOMAIN cache : \A j \in DOMAIN cache :
        PairOf(cache[i].key) = PairOf(cache[j].key) => i = j

\* round(km * 1000): the nearest whole metre
RoundedMetres(d) == d.m + (IF d.mm >= 500 THEN 1 ELSE 0)

\* C24: in the great-circle fallback matrix every diagonal entry is 0 and
\* every other entry is round(km * 1000), the nearest metre, not the metres
\* cut off.
C24_FallbackRounds ==
    (Returned /\ matrixSource = "haversine") =>
        \A i \in 1..Len(locations) : \A j \in 1..Len(locations) :
            distance_matrix[i][j] =
                IF i = j THEN 0
                ELSE RoundedMetres(
                       haversine_distance(locations[i].latitude, locations[i].longitude,
                                          locations[j].latitude, locations[j].longitude))

\* the demands, as validated, of the stops of a route (thousandths)
RouteDemand(route_indices) ==
    SumSet([k \in 0..(Len(locations) - 1) |-> locations[k + 1].demand],
           StopsOf(route_indices))

\* C27: in every multi-vehicle result the unscaled demands of the stops of a
\* route sum to at most the unscaled capacity of its vehicle, also for values
\* with more than two decimal places.
C27_UnscaledLoadWithinCapacity ==
    VrpAnswered =>
        \A r \in DOMAIN VrpOut.vehicle_routes :
            RouteDemand(VrpOut.vehicle_routes[r].route_indices)
                <= vehicles[VrpOut.vehicle_routes[r].vehicle_id + 1].capacity

\* the total distance of an answer with a result
TotalDistance(resp) ==
    IF resp.tsp_result # << >> THEN resp.tsp_result[1].total_distance_meters
    ELSE resp.vrp_result[1].total_distance_meters

\* C25: two successive solves of the same input give the same total
\* distance, whatever the road-distance service did in either of them.
C25_SameTotalTwice ==
    (/\ pc = "done"
     /\ prev # NoFailure
     /\ prev.response.status = HTTP_200
     /\ response.status = HTTP_200) =>
        TotalDistance(response) = TotalDistance(prev.response)

\* ---------------------------------------------------------------------
\* The distance cache over many builds
\* ---------------------------------------------------------------------

\* the longest list of a build on the cache
CacheStops == 2

CachePool ==
    { [latitude |-> 0, longitude |-> 1, demand |-> 0],
      [latitude |-> 0, longitude |-> 2, demand |-> 0] }

\* n stops on the equator, no two at the same place
DistinctList(n) ==
    [i \in 1..n |-> [latitude |-> 0, longitude |-> i, demand |-> 0]]

\* the cache of a process that built the matrix of OsrmCeiling + 1 distinct
\* stops: more pairs than the cache holds
FullCache == calculate_haversine_matrix(<< >>, DistinctList(OsrmCeiling + 1)).cache

\* a service whose process has built no matrix yet, or the one above
InitCache ==
    /\ pc = "idle"
    /\ payload = NoPayload
    /\ locations = << >>
    /\ vehicles = << >>
    /\ matrixSource = "none"
    /\ solverStatus = "ROUTING_NOT_SOLVED"
    /\ solution = << >>
    /\ response = NoResponse
    /\ prev = NoFailure
    /\ roadResponse = "none"
    /\ osrmRequests = 0
    /\ log = << >>
    /\ distance_matrix = << >>
    /\ raised = ""
    /\ cache \in { << >>, FullCache }
    /\ OutsideIdle

\* one call of calculate_distance_matrix with a short list
BuildOnCache ==
    /\ pc = "idle"
    /\ \E locs \in UNION { [1..n -> CachePool] : n \in 0..CacheStops } :
       \E kind \in RoadBehaviours(locs) :
       \E r \in { calculate_distance_matrix(locs, kind, cache) } :
          /\ locations' = locs
          /\ roadResponse' = IF r.requests = 0 THEN "none" ELSE kind
          /\ osrmRequests' = r.requests
          /\ log' = r.log
          /\ distance_matrix' = r.matrix
          /\ matrixSource' = r.source
          /\ raised' = r.raised
          /\ cache' = r.cache
    /\ pc' = "returned"
    /\ UNCHANGED << payload, vehicles, solverStatus, solution, response, prev >>
    /\ UNCHANGED outside

NextCache ==
    \/ BuildOnCache
    \/ DropMatrix

\* successive builds in a process whose cache may be full
SpecCache == InitCache /\ [][NextCache]_vars

\* the keys a build over locs calls _haversine_distance with
CalledKeys(locs) ==
    { CallKey(locs[p[1]], locs[p[2]]) :
        p \in { q \in (DOMAIN locs) \X (DOMAIN locs) : q[1] # q[2] } }

\* the entries of c, in order, that a build did not ask for
NotCalled(c, keys) == SelectSeq(c, LAMBDA e : e.key \notin keys)

\* t is the end of s
IsSuffix(t, s) ==
    /\ Len(t) <= Len(s)
    /\ t = SubSeq(s, Len(s) - Len(t) + 1, Len(s))

Smaller(a, b) == IF a < b THEN a ELSE b

\* what a build that used the haversine loop over locs does to the cache:
\* the pairs it asked for are the most recent entries, the entries it did
\* not ask for lose only their least recently used ones, and only as many
\* as the bound requires
LruBuild(locs) ==
    LET keys == CalledKeys(locs)
        before == NotCalled(cache, keys)
        after == NotCalled(cache', keys)
    IN /\ IsSuffix(after, before)
       /\ Len(cache') = Smaller(CacheMaxSize, Len(before) + Cardinality(keys))
       /\ { cache'[p].key :
              p \in (Len(after) + 1)..Len(cache') } = keys

\* C21: the distance cache holds at most 10,000 entries after any sequence
\* of builds, and an insertion into a full cache evicts the least recently
\* used entry, one for each insertion.
C21_CacheBounded ==
    /\ [](Len(cache) <= CacheMaxSize)
    /\ [][IF pc' = "returned" /\ matrixSource' = "haversine"
            THEN LruBuild(locations')
            ELSE cache' = cache]_vars

\* a build on the full cache has stored a pair it did not hold and dropped
\* the oldest entry
C21_Witness ==
    /\ pc = "returned"
    /\ Len(cache) = CacheMaxSize
    /\ cache[CacheMaxSize].key = << 0, 1, 0, 1 >>
    /\ cache[1].key = << 0, 2, 0, 3 >>

\* ---------------------------------------------------------------------
\* Distance calls on several threads
\* ---------------------------------------------------------------------

\* the calls of _haversine_distance one thread makes
ConcCalls == 2

\* optimize_routes is a plain def: the server runs each call on a worker
\* thread, two of them here
Threads == {1, 2}

\* the pairs the threads ask for: two that the full cache does not hold,
\* of different lengths, and the oldest one it holds
ConcKeys == { << 0, 1, 0, 2 >>, << 0, 1, 0, 3 >>, << 0, 2, 0, 1 >> }

\* what a request handled by one thread holds
request == << pc, payload, locations, vehicles, matrixSource, solverStatus,
              solution, response, prev, roadResponse, osrmRequests, log,
              distance_matrix, raised >>

\* no request on the single-thread path
RequestIdle ==
    /\ pc = "idle"
    /\ payload = NoPayload
    /\ locations = << >>
    /\ vehicles = << >>
    /\ matrixSource = "none"
    /\ solverStatus = "ROUTING_NOT_SOLVED"
    /\ solution = << >>
    /\ response = NoResponse
    /\ prev = NoFailure
    /\ roadResponse = "none"
    /\ osrmRequests = 0
    /\ log = << >>
    /\ distance_matrix = << >>
    /\ raised = ""

\* a thread that has made no call yet
ThreadIdle == [at |-> "loop", key |-> << >>, value |-> Length(0, 0), calls |-> 0]

InitConc ==
    /\ RequestIdle
    /\ cache \in { << >>, FullCache }
    /\ threads = [t \in Threads |-> ThreadIdle]
    /\ ForecastingIdle
    /\ KeystoreIdle
    /\ SummingIdle

\* thread t, in the loop of _calculate_haversine_matrix, calls
\* _haversine_distance: the wrapper looks the key up, and on a hit moves the
\* entry to the most recent place and returns its value, all before any
\* other thread runs; on a miss the thread goes on to run the function
CallHaversineDistance(t) ==
    /\ threads[t].at = "loop"
    /\ threads[t].calls < ConcCalls
    /\ \E k \in ConcKeys :
          IF \E e \in DOMAIN cache : cache[e].key = k
            THEN /\ threads' = [threads EXCEPT
                       ![t].key = k,
                       ![t].value = CachedResult(cache, k),
                       ![t].calls = threads[t].calls + 1]
                 /\ cache' = CachedCall(cache, k)
          ELSE /\ threads' = [threads EXCEPT
                       ![t].at = "call",
                       ![t].key = k,
                       ![t].calls = threads[t].calls + 1]
               /\ UNCHANGED cache
    /\ UNCHANGED << request, forecasting, keystore, summing >>

\* thread t has run the function outside the cache: the wrapper stores the
\* result unless another thread stored the key meanwhile, and returns the
\* result of this call
HaversineDistanceReturns(t) ==
    LET k == threads[t].key
    IN /\ threads[t].at = "call"
       /\ threads' = [threads EXCEPT
             ![t].at = "loop",
             ![t].value = haversine_distance(k[1], k[2], k[3], k[4])]
       /\ cache' = IF \E e \in DOMAIN cache : cache[e].key = k
                     THEN cache
                   ELSE CachedCall(cache, k)
       /\ UNCHANGED << request, forecasting, keystore, summing >>

NextConc ==
    \E t \in Threads :
        \/ CallHaversineDistance(t)
        \/ HaversineDistanceReturns(t)

\* the distance calls of two threads, in any order
SpecConc == InitConc /\ [][NextConc]_vars

\* thread t has the result of a call
Obtained(t) == threads[t].at = "loop" /\ threads[t].calls > 0

\* C22: however the cache calls of concurrent requests interleave, the
\* cache holds at most 10,000 entries, none of them twice, and every
\* distance a request has obtained for a pair is the great-circle distance
\* of that very pair.
C22_ConcurrentCalls ==
    /\ Len(cache) <= CacheMaxSize
    /\ \A k \in ConcKeys :
          Cardinality({ e \in DOMAIN cache : cache[e].key = k }) <= 1
    /\ \A t \in Threads :
          Obtained(t) =>
              threads[t].value =
                  haversine_distance(threads[t].key[1], threads[t].key[2],
                                     threads[t].key[3], threads[t].key[4])

\* both threads missed the same pair on the full cache; one stored it, which
\* evicted the oldest entry, the other found it stored on its return; both
\* hold the distance of the pair
C22_Witness ==
    /\ Len(cache) = CacheMaxSize
    /\ cache[CacheMaxSize].key = << 0, 1, 0, 3 >>
    /\ cache[1].key = << 0, 2, 0, 3 >>
    /\ \A t \in Threads :
          /\ Obtained(t)
          /\ threads[t].calls = 1
          /\ threads[t].key = << 0, 1, 0, 3 >>
          /\ threads[t].value = Length(222389, 853)

\* ---------------------------------------------------------------------
\* A request after a failed one
\* ---------------------------------------------------------------------

\* the longest list of stops of the two requests
FailStops == 2

\* requests that fail in each way, and requests that succeed: stops at two
\* places or at an invalid one, the depot a stop or none, one vehicle too
\* small for the second place
FailPayloads ==
    { [locations |-> ls, depot_index |-> d, problem_type |-> t,
       vehicles |-> IF t = "vrp" THEN << VehiclePool[2] >> ELSE << >>,
       return_to_depot |-> TRUE] :
         ls \in ListsUpTo(<< LocationPool[1], LocationPool[2] >>, 1, FailStops)
                  \cup { << LocationPool[5] >> },
         d \in {0, FailStops},
         t \in {"tsp", "vrp"} }

\* the first request, in a process whose cache is empty or full
InitFail ==
    /\ \E p \in FailPayloads : Fresh(p)
    /\ prev = NoFailure
    /\ cache \in { << >>, FullCache }

\* the failure is answered, the request's structures are dropped, and
\* another request arrives; the cache belongs to the process and stays, a
\* worker started in place of a killed one has an empty cache
ReceiveAfterFailure ==
    /\ pc = "done"
    /\ response.status # HTTP_200
    /\ prev = NoFailure
    /\ prev' = [cause |-> FailureCause, status |-> response.status,
                detail |-> response.detail]
    /\ \E p \in FailPayloads : payload' = p
    /\ pc' = "received"
    /\ locations' = << >>
    /\ vehicles' = << >>
    /\ matrixSource' = "none"
    /\ solverStatus' = "ROUTING_NOT_SOLVED"
    /\ solution' = << >>
    /\ response' = NoResponse
    /\ roadResponse' = "none"
    /\ osrmRequests' = 0
    /\ log' = << >>
    /\ distance_matrix' = << >>
    /\ raised' = ""
    /\ cache' = IF response.status = ProcessAbort THEN << >> ELSE cache
    /\ UNCHANGED outside

NextFail ==
    \/ ValidateRequest
    \/ CalculateDistanceMatrix
    \/ CreateModelRejected
    \/ SolveFound
    \/ SolveInfeasible
    \/ SolveTimeLimit
    \/ Extract
    \/ ReceiveAfterFailure

\* a request that may fail, and the request after it
SpecFail == InitFail /\ [][NextFail]_vars

\* every entry of the cache holds the great-circle distance of its key
EntriesSound(c) ==
    \A e \in DOMAIN c :
        c[e].value = haversine_distance(c[e].key[1], c[e].key[2],
                                        c[e].key[3], c[e].key[4])

\* the request at hand has failed at validation
FailedAtValidation ==
    pc = "done" /\ response.status # HTTP_200 /\ FailureCause = "validation"

\* C23: a failing request does not corrupt the distance cache. No step of a
\* request that fails at validation changes the cache; a request that fails
\* later changes it only in its matrix build, by entries stored and oldest
\* entries dropped (the cache of a killed worker goes with it); at all times every entry holds the great-circle distance
\* of its key, and a matrix built from the cache after a failure is the
\* great-circle matrix of its stops.
C23_FailureKeepsCache ==
    /\ EntriesSound(cache)
    /\ [][cache' = cache \/ EntriesSound(cache')]_vars
    /\ [](matrixSource = "haversine"
            => distance_matrix = GreatCircleMatrix(locations))
    /\ [][/\ FailedAtValidation' => cache' = cache
          /\ cache' # cache =>
               \/ /\ pc = "validated"
                  /\ matrixSource' = "haversine"
                  /\ LruBuild(locations)
               \/ /\ pc = "done"
                  /\ response.status = ProcessAbort
                  /\ cache' = << >>]_vars
    /\ [](FailedAtValidation => matrixSource = "none")

\* after a request that failed once its matrix was built, on the full
\* cache, a second request has built its matrix from the cache
C23_Witness ==
    /\ prev.cause \in {"infeasible", "solver"}
    /\ matrixSource = "haversine"
    /\ Len(locations) = 2
    /\ Len(cache) = CacheMaxSize
    /\ cache[CacheMaxSize].key = << 0, 1, 0, 0 >>

\* ---------------------------------------------------------------------
\* The distance sums on long routes
\* ---------------------------------------------------------------------

\* the vehicles of a multi-vehicle answer whose distances are added up
SumVehicles == 2

\* Python integers have no width: a value is three digits in base 10^9, the
\* most significant first
Limb == 10 ^ 9

IntOf(n) == << 0, 0, n >>

\* x + y
IntAdd(x, y) ==
    LET s0 == x[3] + y[3]
        s1 == x[2] + y[2] + (s0 \div Limb)
        s2 == x[1] + y[1] + (s1 \div Limb)
    IN << s2, s1 % Limb, s0 % Limb >>

\* variant: the carry out of the lowest digit is lost
AddArcCost_NoCarry(x, c) == << x[1], x[2], (x[3] + c) % Limb >>

\* total_distance += routing.GetArcCostForVehicle(...)
AddArcCost(x, c) == IntAdd(x, IntOf(c))

RECURSIVE WalkArcs(_, _, _, _)
\* the arcs lo .. hi of a route added to sum, in order (split in halves, and
\* the sum looked at first, which keeps the evaluation shallow)
WalkArcs(sum, costs, lo, hi) ==
    IF lo > hi \/ sum[1] < 0 THEN sum
    ELSE IF lo = hi THEN AddArcCost(sum, costs[lo])
    ELSE WalkArcs(WalkArcs(sum, costs, lo, (lo + hi) \div 2),
                  costs, ((lo + hi) \div 2) + 1, hi)

\* the while loop over one route, n arcs of it walked
WalkRoute(costs, n) == WalkArcs(IntOf(0), costs, 1, n)

\* the distances the road service can report for a pair, in tenths of a
\* metre: none, or a drive of 30,000 km
RealDistances == {0, 300000000}

\* the arcs of a route with m stops as the road matrix prices them: s of
\* them between pairs the service calls unreachable
RouteArcs(m, s, d) ==
    ConvertDistances(<< [a \in 1..(m + 1) |-> IF a <= s THEN Null ELSE d] >>)[1]

\* the stops a vehicle can be given, of MaxLocations - 1 that are not the depot
StopCounts == {0, 1, 2, (MaxLocations \div 2) - 1, MaxLocations \div 2,
               MaxLocations - 2, MaxLocations - 1}

\* single-vehicle tours of 2 to MaxLocations locations, any number of their
\* arcs unreachable
TspTours ==
    UNION { { [problem_type |-> "tsp", return_to_depot |-> r,
               routes |-> << RouteArcs(m, s, d) >>] :
                 s \in {0, 1, m, m + 1}, d \in RealDistances, r \in BOOLEAN } :
            m \in 1..(MaxLocations - 1) }
    \cup
    { [problem_type |-> "tsp", return_to_depot |-> TRUE,
       routes |-> << RouteArcs(MaxLocations - 1, s, 300000000) >>] :
         s \in 0..MaxLocations }

RECURSIVE StopsGiven(_, _)
\* the stops of the first n vehicles
StopsGiven(f, n) == IF n = 0 THEN 0 ELSE f[n] + StopsGiven(f, n - 1)

\* how many stops each of n vehicles gets
Shares(n) ==
    { f \in [1..n -> StopCounts] :
        /\ StopsGiven(f, n) >= 1
        /\ StopsGiven(f, n) <= MaxLocations - 1 }

\* multi-vehicle plans over at most MaxLocations locations
VrpPlans ==
    UNION { { [problem_type |-> "vrp", return_to_depot |-> r,
               routes |-> [v \in 1..n |->
                             RouteArcs(f[v],
                                       IF u[v] = "all" THEN f[v] + 1
                                       ELSE IF u[v] = "one" THEN 1 ELSE 0,
                                       300000000)]] :
                f \in Shares(n), u \in [1..n -> {"none", "one", "all"}],
                r \in BOOLEAN } :
            n \in 1..SumVehicles }

\* the nodes appended to route for a vehicle that walks these arcs
RouteLength(costs, return_to_depot) ==
    Len(costs) + (IF return_to_depot THEN 1 ELSE 0)

RECURSIVE AddRoutes(_, _, _)
\* total_distance after the first n vehicles
AddRoutes(routes, return_to_depot, n) ==
    IF n = 0 THEN IntOf(0)
    ELSE IF RouteLength(routes[n], return_to_depot) > 2
        THEN IntAdd(AddRoutes(routes, return_to_depot, n - 1),
                    WalkRoute(routes[n], Len(routes[n])))
    ELSE AddRoutes(routes, return_to_depot, n - 1)

\* the distances of the result: each vehicle's, and the total
Distances(plan) ==
    [vehicle_distance |->
        [v \in DOMAIN plan.routes |->
            WalkRoute(plan.routes[v], Len(plan.routes[v]))],
     total_distance |->
        IF plan.problem_type = "tsp"
            THEN WalkRoute(plan.routes[1], Len(plan.routes[1]))
        ELSE AddRoutes(plan.routes, plan.return_to_depot, Len(plan.routes))]

\* the solver has returned an assignment over these arcs
InitSum ==
    /\ RequestIdle
    /\ cache = << >>
    /\ threads = << >>
    /\ ForecastingIdle
    /\ KeystoreIdle
    /\ arc_costs \in TspTours \cup VrpPlans
    /\ summed = << >>

\* the extraction loops of solve_tsp / solve_vrp
ExtractDistances ==
    /\ summed = << >>
    /\ summed' = Distances(arc_costs)
    /\ UNCHANGED << request, cache, threads, forecasting, keystore, arc_costs >>

NextSum == ExtractDistances

\* the distances of one answer
SpecSum == InitSum /\ [][NextSum]_vars

\* 2^63
TwoTo63 == << 9, 223372036, 854775808 >>

IntLess(x, y) ==
    \/ x[1] < y[1]
    \/ x[1] = y[1] /\ x[2] < y[2]
    \/ x[1] = y[1] /\ x[2] = y[2] /\ x[3] < y[3]

\* k * c for k up to some hundreds and c below 10^9, digit by digit
Times(k, c) ==
    LET high == k * (c \div 100000)
        low == k * (c % 100000)
    IN IntAdd(<< 0, high \div 10000, (high % 10000) * 100000 >>, IntOf(low))

\* how many arcs of these cost c
ArcsAt(costs, c) == Cardinality({ a \in DOMAIN costs : costs[a] = c })

\* the arcs at cost c of the routes that count for the total
CountedArcsAt(plan, c) ==
    SumSet([v \in DOMAIN plan.routes |->
              IF plan.problem_type = "vrp"
                 /\ RouteLength(plan.routes[v], plan.return_to_depot) <= 2
                  THEN 0
              ELSE ArcsAt(plan.routes[v], c)],
           DOMAIN plan.routes)

\* C26: with the sentinel 999999999 on unreachable pairs the sums do not
\* overflow: on routes over at most 100 stops, any number of whose arcs
\* carry the sentinel, each vehicle's distance and the total are the exact
\* integer sums of their arc costs and are below 2^63.
C26_SumsBelowInt64 ==
    summed # << >> =>
        /\ \A v \in DOMAIN summed.vehicle_distance :
              /\ IntLess(summed.vehicle_distance[v], TwoTo63)
              /\ summed.vehicle_distance[v] =
                    IntAdd(Times(ArcsAt(arc_costs.routes[v], SentinelDistance),
                                 SentinelDistance),
                           Times(ArcsAt(arc_costs.routes[v], 30000000),
                                 30000000))
        /\ IntLess(summed.total_distance, TwoTo63)
        /\ summed.total_distance =
              IntAdd(Times(CountedArcsAt(arc_costs, SentinelDistance),
                           SentinelDistance),
                     Times(CountedArcsAt(arc_costs, 30000000), 30000000))

\* a closed tour of 100 locations, every arc at the sentinel: 99,999,999,900
C26_Witness ==
    /\ summed # << >>
    /\ arc_costs.problem_type = "tsp"
    /\ Len(arc_costs.routes[1]) = MaxLocations
    /\ ArcsAt(arc_costs.routes[1], SentinelDistance) = MaxLocations
    /\ summed.total_distance = << 0, 99, 999999900 >>

\* ---------------------------------------------------------------------
\* Forecasts and retraining
\* ---------------------------------------------------------------------

\* the retrains of one client's model
MaxRetrains == 2

\* the half hours that pass
MaxTicks == 3

\* cache.set(cache_key, result_dict, ttl=3600)
CacheTtl == 3600

HTTP_404 == 404

ForecastClients == {"acme", "default"}

\* horizon_days of the requests
ForecastHorizons == {7}

\* f"forecast:{self._client_id}:{horizon_days}"
ForecastKey(client, horizon) == << "forecast", client, horizon >>

\* what the stores hold for a key that was never set
Unset == [value |-> << >>, expiry |-> 0]

ForecastKeys ==
    { ForecastKey(c, h) : c \in ForecastClients, h \in ForecastHorizons }

\* forecast_df.to_dict(orient="records") of the frame predicted by the model
\* trained at the given retrain: ds holds Timestamp objects
Predict(model, horizon) ==
    [model |-> model, horizon |-> horizon, ds |-> "Timestamp"]

\* json.loads(json.dumps(value, default=str)): the timestamps come back as
\* strings
ThroughJson(value) == [value EXCEPT !.ds = "str"]

\* Cache.get(key) at time now; redis_up says whether the Redis call of this
\* get succeeds. An expired Redis key is gone; an expired memory entry is
\* deleted by the get
CacheGet(key, now, redis_up) ==
    IF /\ redis_client
       /\ redis_up
       /\ redis_store[key].value # << >>
       /\ now < redis_store[key].expiry
        THEN [value |-> ThroughJson(redis_store[key].value),
              memory |-> memory_cache]
    ELSE IF memory_cache[key].value # << >>
        THEN IF now < memory_cache[key].expiry
                THEN [value |-> memory_cache[key].value, memory |-> memory_cache]
             ELSE [value |-> << >>,
                   memory |-> [memory_cache EXCEPT ![key] = Unset]]
    ELSE [value |-> << >>, memory |-> memory_cache]

\* Cache.set(key, value, ttl) after a get that left memory: Redis if its
\* call succeeds, else the memory cache
CacheSet(key, value, ttl, now, redis_up, memory) ==
    IF redis_client /\ redis_up
        THEN [redis |-> [redis_store EXCEPT
                            ![key] = [value |-> value, expiry |-> now + ttl]],
              memory |-> memory]
    ELSE [redis |-> redis_store,
          memory |-> [memory EXCEPT
                         ![key] = [value |-> value, expiry |-> now + ttl]]]

\* a process with no model trained and nothing cached, with or without a
\* Redis connection
InitForecast ==
    /\ RequestIdle
    /\ cache = << >>
    /\ threads = << >>
    /\ KeystoreIdle
    /\ SummingIdle
    /\ redis_client \in BOOLEAN
    /\ redis_store = [k \in ForecastKeys |-> Unset]
    /\ memory_cache = [k \in ForecastKeys |-> Unset]
    /\ model_pkl = [c \in ForecastClients |-> 0]
    /\ clock = 0
    /\ forecast_out = << >>

\* ForecastService(client).forecast(horizon): the cached result if there is
\* one, else the prediction of the model on disk, which is cached
Forecast(client, horizon) ==
    \E get_up \in BOOLEAN, set_up \in BOOLEAN :
        LET key == ForecastKey(client, horizon)
            got == CacheGet(key, clock, get_up)
            result == Predict(model_pkl[client], horizon)
            set == CacheSet(key, result, CacheTtl, clock, set_up, got.memory)
        IN IF got.value # << >>
             THEN /\ forecast_out' = [status |-> HTTP_200, client |-> client,
                                      result |-> got.value]
                  /\ memory_cache' = got.memory
                  /\ UNCHANGED redis_store
           ELSE IF model_pkl[client] = 0
             THEN /\ forecast_out' = [status |-> HTTP_404, client |-> client,
                                      result |-> << >>]
                  /\ memory_cache' = got.memory
                  /\ UNCHANGED redis_store
           ELSE /\ forecast_out' = [status |-> HTTP_200, client |-> client,
                                    result |-> result]
                /\ memory_cache' = set.memory
                /\ redis_store' = set.redis

CallForecast ==
    /\ \E client \in ForecastClients, horizon \in ForecastHorizons :
          Forecast(client, horizon)
    /\ UNCHANGED << request, cache, threads, keystore, summing, redis_client,
                    model_pkl, clock >>

\* POST /model/retrain for a client with data, the training succeeding:
\* train_model saves the new bundle over model.pkl
RetrainSucceeds ==
    /\ \E client \in ForecastClients :
          /\ model_pkl[client] < MaxRetrains
          /\ model_pkl' = [model_pkl EXCEPT ![client] = model_pkl[client] + 1]
    /\ forecast_out' = << >>
    /\ UNCHANGED << request, cache, threads, keystore, summing, redis_client,
                    redis_store, memory_cache, clock >>

\* half of the time a cached forecast lives goes by
Tick ==
    /\ clock < MaxTicks * (CacheTtl \div 2)
    /\ clock' = clock + (CacheTtl \div 2)
    /\ forecast_out' = << >>
    /\ UNCHANGED << request, cache, threads, keystore, summing, redis_client,
                    redis_store, memory_cache, model_pkl >>

NextForecast ==
    \/ CallForecast
    \/ RetrainSucceeds
    \/ Tick

\* forecasts and retrains of two clients
SpecForecast == InitForecast /\ [][NextForecast]_vars

\* C28: once a client's model has been retrained, every later forecast of
\* that client comes from the new model: a forecast just returned was
\* predicted by the model now on disk, never taken from a result cached
\* before the retrain.
C28_ForecastFromNewModel ==
    (forecast_out # << >> /\ forecast_out.status = HTTP_200) =>
        forecast_out.result.model = model_pkl[forecast_out.client]

\* ---------------------------------------------------------------------
\* API keys
\* ---------------------------------------------------------------------

\* the keys created
MaxKeys == 1

\* the days that pass
MaxDays == 2

KeyClients == {"acme", "other"}

\* datetime.utcnow() is the clock; timedelta(days=1) in its seconds
Day == 24 * 3600

\* generate_api_key() for the n-th document: secrets.token_urlsafe(32), a
\* string no earlier call has returned
GeneratedKey(n) == << "token", n >>

\* hash_api_key: the HMAC-SHA256 hex digest under the secret key
HashApiKey(api_key) == << "hmac", api_key >>

\* security.verify_api_key: compare_digest of the hash with the stored one
HashMatches(api_key, hashed_key) == HashApiKey(api_key) = hashed_key

\* the ObjectId the n-th insert_one gives
ObjectIdOf(n) == << "ObjectId", n >>

\* str(result.inserted_id): the 24 hex digits
HexOf(object_id) == << "str", object_id[2] >>

\* a string that is not 24 hex digits
NotHex == << "str", 0 >>

\* what a client can put in the path: the hex string of an ObjectId (of a
\* document or of none), or a string that is no ObjectId
KeyIdStrings ==
    { HexOf(ObjectIdOf(n)) : n \in 1..(MaxKeys + 1) } \cup { NotHex }

\* bson.ObjectId.is_valid
WellFormed(key_id) == key_id # NotHex

\* bson.ObjectId(key_id) of a well-formed string
ParseObjectId(key_id) == ObjectIdOf(key_id[2])

\* the api_keys passed to verify: every key issued, and one never issued
ApiKeyStrings == { GeneratedKey(n) : n \in 1..(MaxKeys + 1) }

\* variant: find({}) - every document, active or not
ActiveKeys_All(docs) == DOMAIN docs

\* collection.find({"is_active": True}), in insertion order
ActiveKeys(docs) == { i \in DOMAIN docs : docs[i].is_active }

\* the first active document verify_api_key accepts for api_key at time
\* now, 0 if there is none
AcceptedKey(docs, api_key, now) ==
    LET ok == { i \in ActiveKeys(docs) :
                  /\ HashMatches(api_key, docs[i].hashed_key)
                  /\ ~(docs[i].expires_at # 0 /\ docs[i].expires_at < now) }
    IN IF ok = {} THEN 0 ELSE CHOOSE i \in ok : \A j \in ok : i <= j

\* the documents update_one({"_id": key_id, "client_id": client_id}, ...)
\* matches; a key_id that is a string equals no ObjectId
Matched(docs, key_id, client_id) ==
    { i \in DOMAIN docs : docs[i]._id = key_id /\ docs[i].client_id = client_id }

\* APIKeyManager.revoke_api_key: the collection afterwards, and
\* modified_count > 0 (a document already inactive is matched, not modified)
revoke_api_key(docs, key_id, client_id) ==
    LET hit == Matched(docs, key_id, client_id)
    IN [docs |-> [i \in DOMAIN docs |->
                     IF i \in hit THEN [docs[i] EXCEPT !.is_active = FALSE]
                     ELSE docs[i]],
        modified |-> \E i \in hit : docs[i].is_active]

\* no key issued yet
InitKeys ==
    /\ RequestIdle
    /\ cache = << >>
    /\ threads = << >>
    /\ SummingIdle
    /\ ForecastingIdle
    /\ KeystoreIdle

\* APIKeyManager.create_api_key(name, client_id, expires_days)
CreateApiKey ==
    /\ Len(api_keys) < MaxKeys
    /\ \E client_id \in KeyClients, expires_days \in {0, 1} :
          LET n == Len(api_keys) + 1
              key_doc == [_id |-> ObjectIdOf(n),
                          client_id |-> client_id,
                          hashed_key |-> HashApiKey(GeneratedKey(n)),
                          expires_at |-> IF expires_days # 0
                                           THEN clock + expires_days * Day
                                         ELSE 0,
                          is_active |-> TRUE,
                          last_used |-> 0]
          IN /\ api_keys' = Append(api_keys, key_doc)
             /\ key_out' = [op |-> "create", api_key |-> GeneratedKey(n),
                            key_id |-> HexOf(ObjectIdOf(n)),
                            client_id |-> client_id, result |-> TRUE]
    /\ response' = NoResponse
    /\ UNCHANGED << pc, payload, locations, vehicles, matrixSource,
                    solverStatus, solution, prev, provider, threads,
                    forecasting, summing >>

\* APIKeyManager.verify_api_key(api_key)
VerifyApiKey ==
    /\ \E api_key \in ApiKeyStrings :
          LET i == AcceptedKey(api_keys, api_key, clock)
          IN IF i = 0
               THEN /\ key_out' = [op |-> "verify", api_key |-> api_key,
                                   key_id |-> << >>, client_id |-> "",
                                   result |-> FALSE]
                    /\ UNCHANGED api_keys
             ELSE /\ key_out' = [op |-> "verify", api_key |-> api_key,
                                 key_id |-> << >>,
                                 client_id |-> api_keys[i].client_id,
                                 result |-> TRUE]
                  /\ api_keys' = [api_keys EXCEPT ![i].last_used = clock]
    /\ response' = NoResponse
    /\ UNCHANGED << pc, payload, locations, vehicles, matrixSource,
                    solverStatus, solution, prev, provider, threads,
                    forecasting, summing >>

\* APIKeyManager.revoke_api_key(key_id, client_id), called with an ObjectId
\* or with the string create_api_key returned
RevokeApiKey ==
    /\ \E key_id \in { ObjectIdOf(n) : n \in 1..(MaxKeys + 1) }
                        \cup { HexOf(ObjectIdOf(n)) : n \in 1..MaxKeys },
          client_id \in KeyClients :
          LET r == revoke_api_key(api_keys, key_id, client_id)
          IN /\ api_keys' = r.docs
             /\ key_out' = [op |-> "revoke", api_key |-> << >>,
                            key_id |-> key_id, client_id |-> client_id,
                            result |-> r.modified]
    /\ response' = NoResponse
    /\ UNCHANGED << pc, payload, locations, vehicles, matrixSource,
                    solverStatus, solution, prev, provider, threads,
                    forecasting, summing >>

\* DELETE /api-keys/{key_id} by an authenticated client: ObjectId(key_id)
\* raises on a malformed string; the HTTPException raised for an
\* unsuccessful revoke is raised inside the try, and except Exception
\* answers every exception with a 400
RevokeEndpoint ==
    /\ \E key_id \in KeyIdStrings, client_id \in KeyClients :
          IF ~WellFormed(key_id)
            THEN /\ response' = Failure(HTTP_400, "Invalid key ID: InvalidId")
                 /\ key_out' = [op |-> "delete", api_key |-> << >>,
                                key_id |-> key_id, client_id |-> client_id,
                                result |-> FALSE]
                 /\ UNCHANGED api_keys
          ELSE LET r == revoke_api_key(api_keys, ParseObjectId(key_id),
                                       client_id)
                  IN /\ api_keys' = r.docs
                     /\ key_out' = [op |-> "delete", api_key |-> << >>,
                                    key_id |-> key_id, client_id |-> client_id,
                                    result |-> r.modified]
                     /\ response' =
                           IF r.modified
                               THEN [status |-> HTTP_200, detail |-> "revoked",
                                     tsp_result |-> << >>, vrp_result |-> << >>]
                           ELSE Failure(HTTP_400,
                                        "Invalid key ID: 404: API key not found")
    /\ UNCHANGED << pc, payload, locations, vehicles, matrixSource,
                    solverStatus, solution, prev, provider, threads,
                    forecasting, summing >>

\* a day goes by
DayPasses ==
    /\ clock < MaxDays * Day
    /\ clock' = clock + Day
    /\ UNCHANGED << request, cache, threads, summing, keystore, redis_client,
                    redis_store, memory_cache, model_pkl, forecast_out >>

NextKeys ==
    \/ CreateApiKey
    \/ VerifyApiKey
    \/ RevokeApiKey
    \/ RevokeEndpoint
    \/ DayPasses

\* the API keys of two clients
SpecKeys == InitKeys /\ [][NextKeys]_vars

\* the documents that hold the hash of api_key
HoldersOf(docs, api_key) ==
    { i \in DOMAIN docs : HashMatches(api_key, docs[i].hashed_key) }

\* the documents with this ObjectId
WithId(docs, object_id) == { i \in DOMAIN docs : docs[i]._id = object_id }

\* the step is a revoke_api_key call, made by itself or by the endpoint
\* with the parsed id
RevokeCalled ==
    /\ key_out' # key_out \/ api_keys' # api_keys
    /\ \/ key_out'.op = "revoke"
       \/ key_out'.op = "delete" /\ WellFormed(key_out'.key_id)

\* the ObjectId that call was made with
RevokedId ==
    IF key_out'.op = "delete" THEN ParseObjectId(key_out'.key_id)
    ELSE key_out'.key_id

\* C29: once revoke_api_key has succeeded for a key, verify_api_key never
\* returns metadata for it again: a successful revoke leaves the key
\* inactive, an inactive key never becomes active, and verify returns
\* metadata only for active keys. A revoke by a client that does not own
\* the key returns false and leaves the key as it was.
C29_RevokedKeyStaysOut ==
    /\ [](key_out # << >> /\ key_out.op = "verify" /\ key_out.result
            => \A i \in HoldersOf(api_keys, key_out.api_key) :
                   api_keys[i].is_active)
    /\ [][\A i \in DOMAIN api_keys :
             ~api_keys[i].is_active => ~api_keys'[i].is_active]_vars
    /\ [][RevokeCalled =>
            /\ key_out'.result =>
                 /\ WithId(api_keys, RevokedId) # {}
                 /\ \A i \in WithId(api_keys, RevokedId) :
                       ~api_keys'[i].is_active
            /\ (\A i \in WithId(api_keys, RevokedId) :
                    api_keys[i].client_id # key_out'.client_id)
                 => ~key_out'.result /\ api_keys' = api_keys]_vars

\* a key was revoked by its owner; verify_api_key, called with it before it
\* could expire, has returned nothing
C29_Witness ==
    /\ key_out # << >>
    /\ key_out.op = "verify"
    /\ ~key_out.result
    /\ \E i \in HoldersOf(api_keys, key_out.api_key) :
          /\ ~api_keys[i].is_active
          /\ api_keys[i].expires_at = 0

\* C30: DELETE /api-keys/{key_id} answers 404 'API key not found' when the
\* well-formed id matches no active key of the authenticated client, and
\* 400 'Invalid key ID' only when the id is malformed.
C30_NotFoundIs404 ==
    (key_out # << >> /\ key_out.op = "delete") =>
        /\ (WellFormed(key_out.key_id) /\ ~key_out.result)
              => /\ response.status = HTTP_404
                 /\ response.detail = "API key not found"
        /\ response.status = HTTP_400 => ~WellFormed(key_out.key_id)

====
